---- MODULE Spec2Model ----
(***************************************************************************)
(* K8sStore (pkg/resourcewatcher/k8s_store.go): the in-memory cache of one *)
(* resource kind and its dump file, written by incremental appends and by  *)
(* throttled full rewrites (scratch file, flush, sync, rename).            *)
(*                                                                         *)
(* The file system is modelled with paths, inodes and file handles with    *)
(* offsets, because the code keeps a handle open across renames.  File     *)
(* content is a sequence of lines; a failed write leaves a prefix of whole *)
(* lines.  Every I/O call may fail.                                        *)
(***************************************************************************)
EXTENDS Integers, Sequences, FiniteSets

\* ------------------------------------------------------------ bounds
MaxTime == 4          \* the last reading the clock gives
MaxLen == 3           \* the furthest line an append may write
MaxFaults == 1        \* I/O calls that fail for an outside reason in one run

\* ------------------------------------------------------------ inputs
Namespaces == {"a"}
Names == {"x", "y"}
Payloads == {"m5", "c5"}   \* stands for the rendered fields after the name

RawObjects ==
    {o \in [ns : Namespaces, name : Names, payload : Payloads] :
        o.name = "x" \/ o.payload = "m5"}

\* what the informer hands to DeleteResource: the object itself, a
\* cache.DeletedFinalStateUnknown tombstone wrapping it, or something else;
\* only the namespace and the name of the object are read
DeleteArgs ==
    [kind : {"meta", "tombstone"}, obj : {o \in RawObjects : o.payload = "m5"}]
        \cup {[kind |-> "other"]}

\* objects for the identity extractor: namespaces are DNS labels (letters,
\* digits, '-'), names may have other characters as well
KeyNamespaces == {"a", "ab", "a-b"}
KeyNames == {"x", "bx", "b_x", "b-x"}
KeyObjects == [ns : KeyNamespaces, name : KeyNames, payload : {"m5"}]

\* ------------------------------------------------------------ adapter
NodeHeader == "Name Roles InstanceType Zone InternalIp Age Labels"

resourceKey_NoSeparator(obj) == obj.ns \o obj.name

\* lines 64-67: fmt.Sprintf("%s_%s", namespace, name)
resourceKey(obj) == obj.ns \o "_" \o obj.name

resourceCtor(obj) ==
    [name |-> obj.name, namespace |-> obj.ns, payload |-> obj.payload]

ToString(r) == r.name \o " " \o r.payload

HasChanged(n, k) == TRUE

\* the change predicate of an adapter that compares the candidate record
\* with the previous one (nil when the cache has none)
HasChangedCompared(n, k) == n # k

Nil == [nil |-> TRUE]

\* ------------------------------------------------------------ store config
TimeBetweenFullDump == 2

ZeroTime == 0                                   \* time.Time{}
StartTime == ZeroTime + TimeBetweenFullDump     \* earliest clock reading

\* ------------------------------------------------------------ file system
TempPath == "temp"
DestPath == "dest"
Inodes == 1..3
NoIno == 0
Hole == "<hole>"

NoHandle == [ino |-> NoIno, off |-> 0, closed |-> TRUE]

VARIABLES
    data,          \* k.data: key -> resource
    firstWrite,    \* k.firstWrite
    lastFullDump,  \* k.lastFullDump
    currentFile,   \* k.currentFile: a handle [ino, off, closed]
    paths,         \* directory: path -> inode (NoIno: no such file)
    inodes,        \* inode -> content, a sequence of lines
    clock,         \* the last reading of time.Now()
    pc,            \* position inside DumpFullState, "idle" between calls
    f,             \* DumpFullState's local tempFileName handle
    w,             \* DumpFullState's bufio.Writer buffer
    todo,          \* keys the range loop has not visited yet
    ret,           \* what the last DumpFullState / AppendNewObject returned
    faults,        \* I/O calls that have failed for an outside reason
    \* history, read by the properties only
    preDest,       \* what a reader saw at DestPath when the rewrite began
    hist,          \* the first two public calls, then Later; or the last
                   \* call, when track = "updates" and it is an update
    lastReq,       \* the last full-rewrite request: its time, whether performed
    ideal,         \* the cache as the calls alone determine it
    seen,          \* the cache contents the Store has been in
    track,         \* what is recorded: "none", "requests", "seen", "updates"
    kind           \* the resource kind whose adapter the Store was given (line 53)

storeVars == <<data, firstWrite, lastFullDump, currentFile>>
fsVars == <<paths, inodes>>
dumpVars == <<f, w, todo>>
histVars == <<hist, lastReq, ideal, seen, track, kind>>
vars == <<data, firstWrite, lastFullDump, currentFile, paths, inodes, clock,
          pc, f, w, todo, ret, faults, preDest, hist, lastReq, ideal, seen,
          track, kind>>


\* ------------------------------------------------------------ file helpers
NoFile == <<"<absent>">>

\* what a reader opening `path` sees
ReadFile(P, I, path) == IF P[path] = NoIno THEN NoFile ELSE I[P[path]]

Holes(n) == [i \in 1..n |-> Hole]

\* write(2) through a handle without O_APPEND: the bytes land at the
\* handle's offset, overwriting what is there
WriteAt(content, off, lines) ==
    LET padded == IF off > Len(content)
                  THEN content \o Holes(off - Len(content))
                  ELSE content
    IN  SubSeq(padded, 1, off) \o lines
            \o SubSeq(padded, off + Len(lines) + 1, Len(padded))

HandleWrite(I, h, lines) == [I EXCEPT ![h.ino] = WriteAt(@, h.off, lines)]

Advance(h, n) == [h EXCEPT !.off = @ + n]

\* an inode lives while a path names it or an open handle holds it
InUse(P, cur, i) ==
    \/ i = P[TempPath]
    \/ i = P[DestPath]
    \/ (~cur.closed /\ cur.ino = i)

Reclaim(P, I, cur) == [i \in Inodes |-> IF InUse(P, cur, i) THEN I[i] ELSE <<>>]

FreeIno(P, cur) == CHOOSE i \in Inodes : ~InUse(P, cur, i)

OsCreate_NoTrunc(P, I, cur, path) ==
    IF P[path] # NoIno
    THEN [paths |-> P, inodes |-> I, ino |-> P[path]]
    ELSE LET i == FreeIno(P, cur)
         IN  [paths |-> [P EXCEPT ![path] = i],
              inodes |-> [I EXCEPT ![i] = <<>>], ino |-> i]

\* os.Create: O_RDWR|O_CREATE|O_TRUNC
OsCreate(P, I, cur, path) ==
    IF P[path] # NoIno
    THEN [paths |-> P, inodes |-> [I EXCEPT ![P[path]] = <<>>], ino |-> P[path]]
    ELSE LET i == FreeIno(P, cur)
         IN  [paths |-> [P EXCEPT ![path] = i],
              inodes |-> [I EXCEPT ![i] = <<>>], ino |-> i]

OsRename_Swapped(P, I, cur, from, to) ==
    LET P2 == [P EXCEPT ![from] = P[to], ![to] = NoIno]
    IN  [paths |-> P2, inodes |-> Reclaim(P2, I, cur)]

\* os.Rename of an existing `from` onto `to`
OsRename(P, I, cur, from, to) ==
    LET P2 == [P EXCEPT ![to] = P[from], ![from] = NoIno]
    IN  [paths |-> P2, inodes |-> Reclaim(P2, I, cur)]

\* ------------------------------------------------------------ history
Later == <<[op |-> "later"]>>
NoReq == [t |-> ZeroTime, done |-> FALSE]

Note(call) ==
    hist' = IF track = "updates"
            THEN IF call.op = "update" THEN <<call>> ELSE Later
            ELSE IF hist # Later /\ Len(hist) < 2 THEN Append(hist, call) ELSE Later

\* the rendered lines of a cache content
Rendered(d) == {ToString(d[k]) : k \in DOMAIN d}

Entries(d) == {<<k, d[k]>> : k \in DOMAIN d}

Saw(d) == seen' = IF track = "seen" THEN seen \cup {Rendered(d)} ELSE seen

Asked(now, done) == lastReq' = IF track = "requests" THEN [t |-> now, done |-> done] ELSE lastReq

\* ------------------------------------------------------------ initial state
\* NewK8sStore in an empty cache directory
StoreInit ==
    /\ data = <<>>
    /\ firstWrite = TRUE
    /\ lastFullDump = ZeroTime
    /\ currentFile = [ino |-> 1, off |-> 0, closed |-> FALSE]
    /\ paths = [p \in {TempPath, DestPath} |-> IF p = TempPath THEN 1 ELSE NoIno]
    /\ inodes = [i \in Inodes |-> <<>>]
    /\ clock = StartTime
    /\ pc = "idle"
    /\ f = NoHandle
    /\ w = <<>>
    /\ todo = {}
    /\ ret = "none"
    /\ preDest = NoFile
    /\ hist = <<>>
    /\ lastReq = NoReq
    /\ ideal = {}
    /\ seen = {{}}

Init == StoreInit /\ faults = 0 /\ track = "none" /\ kind = "node"

InitRequests == StoreInit /\ faults = 0 /\ track = "requests" /\ kind = "node"

InitSeen == StoreInit /\ faults = 0 /\ track = "seen" /\ kind = "node"

\* a Store of a resource kind whose adapter compares the two records, in
\* runs whose I/O does not fail (the failures of a run are used up)
InitCompared ==
    StoreInit /\ faults = MaxFaults /\ track = "updates" /\ kind = "compared"

\* ------------------------------------------------------------ cache updates
Prev(d, key) == IF key \in DOMAIN d THEN d[key] ELSE Nil

Put(d, key, r) == [k \in DOMAIN d \cup {key} |-> IF k = key THEN r ELSE d[k]]

Remove(d, key) == [k \in DOMAIN d \ {key} |-> d[k]]

\* a list as the API server returns it: no identity twice
Lists == {l \in SUBSET RawObjects :
            \A o1, o2 \in l : resourceKey(o1) = resourceKey(o2) => o1 = o2}

FromList_Merge(lst) ==
    [k \in DOMAIN data \cup {resourceKey(o) : o \in lst} |->
        IF \E o \in lst : resourceKey(o) = k
        THEN resourceCtor(CHOOSE o \in lst : resourceKey(o) = k)
        ELSE data[k]]

\* lines 72-77
FromList(lst) ==
    [k \in {resourceKey(o) : o \in lst} |->
        resourceCtor(CHOOSE o \in lst : resourceKey(o) = k)]

\* lines 86-88: the cache after AddResource(obj)
Added(d, obj) == Put(d, resourceKey(obj), resourceCtor(obj))

DeleteKey(arg) ==
    IF arg.kind \in {"meta", "tombstone"} THEN resourceKey(arg.obj) ELSE "Unknown"

\* ------------------------------------------------------------ I/O outcomes
\* an I/O call succeeds, or fails while the run's failures are not used up
Outcomes == IF faults < MaxFaults THEN BOOLEAN ELSE {TRUE}

Charge(ok) == faults' = IF ok THEN faults ELSE faults + 1

\* ------------------------------------------------------------ DumpFullState
Throttled_Never(now, last) == FALSE

Throttled_OffByOne(now, last) == now - last < TimeBetweenFullDump - 1

\* lines 150-152
Throttled(now, last) == now - last < TimeBetweenFullDump

\* what time.Now() may return: the clock does not go back
Nows == clock..MaxTime

Skipped_Pending == "create"

\* lines 152-155: a throttled request returns nil, nothing is kept of it
Skipped == "idle"

\* lines 150-157: the throttle, then the timestamp; `now` is time.Now()
DumpFullStateEnter(now) ==
    /\ clock' = now
    /\ IF Throttled(now, lastFullDump)
       THEN /\ pc' = Skipped
            /\ ret' = "nil"
            /\ Asked(now, FALSE)
            /\ UNCHANGED <<lastFullDump, preDest>>
       ELSE /\ pc' = "create"
            /\ ret' = "none"
            /\ lastFullDump' = now
            /\ Asked(now, TRUE)
            /\ preDest' = ReadFile(paths, inodes, DestPath)

DumpReturn(e) ==
    /\ pc' = "idle"
    /\ ret' = e
    /\ f' = NoHandle
    /\ w' = <<>>
    /\ todo' = {}
    /\ preDest' = NoFile

CreatePath_InPlace == DestPath

\* the path DumpFullState creates and fills
CreatePath == TempPath

\* lines 158-164: os.Create of the scratch path, bufio.NewWriter, header.
\* On failure os.Create returns a nil *os.File and line 159 calls Name() on
\* it before err is looked at: a nil pointer dereference.
DumpCreate ==
    /\ pc = "create"
    /\ \E ok \in Outcomes :
        /\ Charge(ok)
        /\ IF ok
           THEN LET c == OsCreate(paths, inodes, currentFile, CreatePath)
                IN  /\ paths' = c.paths
                    /\ inodes' = c.inodes
                    /\ f' = [ino |-> c.ino, off |-> 0, closed |-> FALSE]
                    /\ w' = <<NodeHeader>>
                    /\ todo' = DOMAIN data
                    /\ pc' = "write"
                    /\ UNCHANGED <<ret, preDest>>
           ELSE /\ pc' = "panic"
                /\ UNCHANGED <<paths, inodes, f, w, todo, ret, preDest>>
    /\ UNCHANGED <<storeVars, clock, histVars>>

\* what a write that fails has put into the file: fewer lines than asked
Partial(lines) == {SubSeq(lines, 1, n) : n \in 0..(Len(lines) - 1)}

\* lines 165-170: one iteration of the range loop; the buffer may have to
\* be written out to make room (spill), and that write may fail
DumpWrite ==
    /\ pc = "write"
    /\ \E k \in todo, spill \in BOOLEAN, ok \in Outcomes :
        /\ Charge(spill => ok)
        /\ IF ~spill
           THEN /\ ok
                /\ w' = Append(w, ToString(data[k]))
                /\ todo' = todo \ {k}
                /\ UNCHANGED <<inodes, f, pc, ret, preDest>>
           ELSE IF ok
           THEN /\ inodes' = HandleWrite(inodes, f, w)
                /\ f' = Advance(f, Len(w))
                /\ w' = <<ToString(data[k])>>
                /\ todo' = todo \ {k}
                /\ UNCHANGED <<pc, ret, preDest>>
           ELSE /\ \E part \in Partial(w) : inodes' = HandleWrite(inodes, f, part)
                /\ DumpReturn("err")
    /\ UNCHANGED <<storeVars, paths, clock, histVars>>

DumpFlush_Skipped ==
    /\ pc = "write"
    /\ todo = {}
    /\ pc' = "sync"
    /\ UNCHANGED <<storeVars, fsVars, clock, dumpVars, ret, faults, preDest,
                   histVars>>

\* lines 171-174: w.Flush()
DumpFlush ==
    /\ pc = "write"
    /\ todo = {}
    /\ \E ok \in Outcomes :
        /\ Charge(ok)
        /\ IF ok
           THEN /\ inodes' = HandleWrite(inodes, f, w)
                /\ f' = Advance(f, Len(w))
                /\ w' = <<>>
                /\ pc' = "sync"
                /\ UNCHANGED <<todo, ret, preDest>>
           ELSE /\ \E part \in Partial(w) : inodes' = HandleWrite(inodes, f, part)
                /\ DumpReturn("err")
    /\ UNCHANGED <<storeVars, paths, clock, histVars>>

\* lines 176-179: tempFileName.Sync()
DumpSync ==
    /\ pc = "sync"
    /\ \E ok \in Outcomes :
        /\ Charge(ok)
        /\ IF ok
           THEN /\ pc' = "close"
                /\ UNCHANGED <<dumpVars, ret, preDest>>
           ELSE DumpReturn("err")
    /\ UNCHANGED <<storeVars, fsVars, clock, histVars>>

\* lines 181-182: k.currentFile.Close(), its error dropped
DumpClose ==
    /\ pc = "close"
    /\ currentFile' = NoHandle
    /\ inodes' = Reclaim(paths, inodes, NoHandle)
    /\ pc' = "rename"
    /\ UNCHANGED <<data, firstWrite, lastFullDump, paths, clock, dumpVars, ret,
                   faults, preDest, histVars>>

\* lines 183-187: os.Rename(k.tempFileName, k.destFile)
DumpRename ==
    /\ pc = "rename"
    /\ \E ok \in Outcomes :
        /\ Charge(ok)
        /\ IF ok /\ paths[TempPath] # NoIno
           THEN LET r == OsRename(paths, inodes, currentFile, TempPath, DestPath)
                IN  /\ paths' = r.paths
                    /\ inodes' = r.inodes
                    /\ pc' = "install"
                    /\ UNCHANGED <<dumpVars, ret, preDest>>
           ELSE /\ DumpReturn("err")
                /\ UNCHANGED fsVars
    /\ UNCHANGED <<storeVars, clock, histVars>>

\* lines 188-189: k.currentFile = tempFileName; return nil
DumpInstall ==
    /\ pc = "install"
    /\ currentFile' = f
    /\ DumpReturn("nil")
    /\ UNCHANGED <<data, firstWrite, lastFullDump, fsVars, clock, faults,
                   histVars>>

\* ------------------------------------------------------------ AppendNewObject
\* lines 132-146, given the outcome of each of its three I/O calls.  A
\* write through a closed handle and a rename of a missing file fail by
\* themselves.
NeedsHeader_Inverted == ~firstWrite

\* line 133
NeedsHeader == firstWrite

AppendNewObject(resource, hdrOk, renOk, wrOk) ==
    LET cur == currentFile
        \* line 134: the header, its error dropped
        hdrDone == NeedsHeader /\ hdrOk /\ ~cur.closed
        I1 == IF hdrDone THEN HandleWrite(inodes, cur, <<NodeHeader>>) ELSE inodes
        cur1 == IF hdrDone THEN Advance(cur, 1) ELSE cur
        \* lines 136-139
        renDone == NeedsHeader /\ renOk /\ paths[TempPath] # NoIno
        fs2 == IF renDone
               THEN OsRename(paths, I1, cur1, TempPath, DestPath)
               ELSE [paths |-> paths, inodes |-> I1]
        renFailed == NeedsHeader /\ ~renDone
        \* lines 141-145
        wrDone == ~renFailed /\ wrOk /\ ~cur.closed
        I3 == IF wrDone
              THEN HandleWrite(fs2.inodes, cur1, <<ToString(resource)>>)
              ELSE fs2.inodes
        cur3 == IF wrDone THEN Advance(cur1, 1) ELSE cur1
    IN  /\ firstWrite' = FALSE
        /\ paths' = fs2.paths
        /\ inodes' = I3
        /\ currentFile' = cur3
        /\ ret' = IF wrDone THEN "nil" ELSE "err"

\* the I/O calls of AppendNewObject that are reached and fail for an outside
\* reason
AppendFaults(hdrOk, renOk, wrOk) ==
    LET hdrTried == NeedsHeader /\ ~currentFile.closed
        renTried == NeedsHeader /\ paths[TempPath] # NoIno
        wrTried == (NeedsHeader => (renTried /\ renOk)) /\ ~currentFile.closed
        n(tried, ok) == IF tried /\ ~ok THEN 1 ELSE 0
    IN  [count |-> n(hdrTried, hdrOk) + n(renTried, renOk) + n(wrTried, wrOk),
         idle |-> (~hdrTried /\ ~hdrOk) \/ (~renTried /\ ~renOk)
                    \/ (~wrTried /\ ~wrOk)]

\* ------------------------------------------------------------ public methods
Ready == pc = "idle"

\* lines 71-82
AddResourceList ==
    /\ Ready
    /\ \E lst \in Lists :
        /\ data' = FromList(lst)
        /\ Note([op |-> "list", lst |-> lst])
        /\ ideal' = {<<resourceKey(o), resourceCtor(o)>> : o \in lst}
    /\ Saw(data')
    /\ \E now \in Nows : DumpFullStateEnter(now)
    /\ UNCHANGED <<firstWrite, currentFile, fsVars, dumpVars, faults, track, kind>>

\* the most lines AppendNewObject can write now: the header and the record,
\* or one of them (without a scratch file the rename fails after the header)
AppendLines == IF firstWrite /\ paths[TempPath] # NoIno THEN 2 ELSE 1

\* lines 85-95, for one object
AddResourceOf(obj) ==
    /\ Ready
    /\ currentFile.off + AppendLines <= MaxLen
    /\ \E hdrOk \in BOOLEAN, renOk \in BOOLEAN, wrOk \in BOOLEAN :
        LET key == resourceKey(obj)
            newObj == resourceCtor(obj)
            af == AppendFaults(hdrOk, renOk, wrOk)
        IN  /\ ~af.idle
            /\ faults + af.count <= MaxFaults
            /\ faults' = faults + af.count
            /\ data' = Added(data, obj)
            /\ AppendNewObject(newObj, hdrOk, renOk, wrOk)
            /\ Note([op |-> "add", obj |-> obj])
            /\ ideal' = {e \in ideal : e[1] # key} \cup {<<key, newObj>>}
    /\ Saw(data')
    /\ UNCHANGED <<lastFullDump, clock, pc, dumpVars, preDest, lastReq, track,
                   kind>>

AddResource == \E obj \in RawObjects : AddResourceOf(obj)

\* lines 98-115, for one argument
DeleteResourceOf(arg) ==
    /\ Ready
    /\ data' = Remove(data, DeleteKey(arg))
    /\ Note([op |-> "delete", arg |-> arg])
    /\ ideal' = IF arg.kind = "other" THEN ideal
                ELSE {e \in ideal : e[1] # resourceKey(arg.obj)}
    /\ Saw(data')
    /\ \E now \in Nows : DumpFullStateEnter(now)
    /\ UNCHANGED <<firstWrite, currentFile, fsVars, dumpVars, faults, track, kind>>

DeleteResource == \E arg \in DeleteArgs : DeleteResourceOf(arg)

\* line 120: k8sObj.HasChanged(k.data[key]), by the Store's adapter
Changed(n, k) ==
    IF kind = "node" THEN HasChanged(n, k) ELSE HasChangedCompared(n, k)

UpdateDump_Always(changed) == \E now \in Nows : DumpFullStateEnter(now)

\* lines 120-127: the rewrite request of UpdateResource
UpdateDump(changed) ==
    IF changed
    THEN \E now \in Nows : DumpFullStateEnter(now)
    ELSE UNCHANGED <<lastFullDump, clock, pc, ret, preDest, lastReq>>

UpdateKey_OfOld(oldObj, newObj) == resourceKey(oldObj)

\* line 119
UpdateKey(oldObj, newObj) == resourceKey(newObj)

\* the informer hands over an earlier version along with the new object;
\* the code does not check that the two are one resource
OldVersions == {o \in RawObjects : o.payload = "m5"}

\* lines 118-129, for one pair of objects
UpdateResourceOf(oldObj, newObj) ==
    /\ Ready
    /\ LET key == UpdateKey(oldObj, newObj)
           k8sObj == resourceCtor(newObj)
           changed == Changed(k8sObj, Prev(data, key))
       IN  /\ Note([op |-> "update", new |-> newObj])
           /\ data' = IF changed THEN Put(data, key, k8sObj) ELSE data
           /\ ideal' = IF changed
                       THEN {e \in ideal : e[1] # key} \cup {<<key, k8sObj>>}
                       ELSE ideal
           /\ UpdateDump(changed)
    /\ Saw(data')
    /\ UNCHANGED <<firstWrite, currentFile, fsVars, dumpVars, faults, track, kind>>

UpdateResource ==
    \E newObj \in RawObjects : \E oldObj \in OldVersions :
        UpdateResourceOf(oldObj, newObj)

Next ==
    \/ AddResourceList
    \/ AddResource
    \/ DeleteResource
    \/ UpdateResource
    \/ DumpCreate
    \/ DumpWrite
    \/ DumpFlush
    \/ DumpSync
    \/ DumpClose
    \/ DumpRename
    \/ DumpInstall

Spec == Init /\ [][Next]_vars

\* the same program, recording each full-rewrite request
SpecRequests == InitRequests /\ [][Next]_vars

\* the same program, recording every cache content it goes through
SpecSeen == InitSeen /\ [][Next]_vars

\* the same program for a resource kind whose adapter compares records
SpecCompared == InitCompared /\ [][Next]_vars

\* adds of objects with various namespaces and names to a fresh Store, in
\* runs whose I/O does not fail
InitKeys == StoreInit /\ faults = MaxFaults /\ track = "none" /\ kind = "node"

AddResourceKeyed == \E obj \in KeyObjects : AddResourceOf(obj)

SpecKeys == InitKeys /\ [][AddResourceKeyed]_vars

\* ------------------------------------------------------------ properties
ReadDest == ReadFile(paths, inodes, DestPath)

Count(c, l) == Cardinality({i \in 1..Len(c) : c[i] = l})

Records(c) == {c[i] : i \in 2..Len(c)}

\* header first, then exactly one line per entry of d
IsDumpOf(c, d) ==
    /\ Len(c) = 1 + Cardinality(DOMAIN d)
    /\ c[1] = NodeHeader
    /\ Records(c) = Rendered(d)

BeforeRename == {"write", "sync", "close", "rename"}

\* C1: while a full rewrite is under way a reader of the destination path
\* sees the content from before the rewrite at every step up to the rename,
\* and after the rename the complete new dump: the header and a line for
\* every cached record, none cut short or left in the buffer.
C1_RewriteIsAtomic ==
    /\ pc \in BeforeRename => ReadDest = preDest
    /\ pc = "install" =>
        /\ ReadDest = inodes[f.ino]
        /\ Len(ReadDest) = f.off
        /\ w = <<>> /\ todo = {}
        /\ ReadDest[1] = NodeHeader
        /\ \A k \in DOMAIN data : Count(ReadDest, ToString(data[k])) >= 1

\* C1 witness: all of a new dump is written and synced, the old handle is
\* closed, and the destination still holds different, older content.
C1_Witness ==
    /\ pc = "rename"
    /\ preDest # NoFile
    /\ inodes[f.ino] # preDest
    /\ ReadDest = preDest

\* no identity has two different lines in c
OneLinePerIdentity(c) ==
    \A o1, o2 \in RawObjects :
        (/\ resourceKey(o1) = resourceKey(o2)
         /\ Count(c, ToString(resourceCtor(o1))) > 0
         /\ Count(c, ToString(resourceCtor(o2))) > 0) => o1 = o2

\* C2: in runs without I/O failure, a destination file that has its header
\* once, as first line, and no identity twice holds the records of some
\* content the cache has had.
C2_DestIsAPastState ==
    (/\ faults = 0
     /\ paths[DestPath] # NoIno
     /\ Len(ReadDest) >= 1
     /\ ReadDest[1] = NodeHeader
     /\ Count(ReadDest, NodeHeader) = 1
     /\ Count(ReadDest, Hole) = 0
     /\ OneLinePerIdentity(ReadDest))
        => Records(ReadDest) \in seen

\* C3: on a fresh Store list([x]) followed by add(y), y a new identity, with
\* no I/O failure, reports no error and leaves header, x's line, y's line.
C3_ListThenAdd ==
    \A ox, oy \in RawObjects :
        (/\ resourceKey(ox) # resourceKey(oy)
         /\ hist = <<[op |-> "list", lst |-> {ox}], [op |-> "add", obj |-> oy]>>
         /\ pc = "idle"
         /\ faults = 0)
            => /\ ret = "nil"
               /\ ReadDest = <<NodeHeader, ToString(resourceCtor(ox)),
                               ToString(resourceCtor(oy))>>

\* C4: when a full rewrite has gone through (not throttled, no I/O call
\* failed) the destination holds the header and exactly the rendered lines
\* of the cache: one per identity, none twice, none of a removed identity.
C4_RewriteConverges == pc = "install" => IsDumpOf(ReadDest, data)

\* C4 witness: a rewrite has replaced a destination that held a line the
\* cache no longer has.
C4_Witness ==
    /\ pc = "install"
    /\ preDest # NoFile
    /\ \E i \in 2..Len(preDest) : preDest[i] \notin Rendered(data)
    /\ IsDumpOf(ReadDest, data)

\* a public call that asks for a full rewrite
RewriteRequest == AddResourceList \/ DeleteResource \/ UpdateResource

Performed(r) == IF r.done THEN 1 ELSE 0

\* C5 as stated, in runs without I/O failure: of two consecutive rewrite
\* requests less than T apart exactly one is performed, and both are when
\* they are at least T apart.
C5_AnyTwoRequests ==
    [][(lastReq # NoReq /\ faults' = 0 /\ pc = "idle" /\ RewriteRequest) =>
        IF lastReq'.t - lastReq.t < TimeBetweenFullDump
        THEN Performed(lastReq) + Performed(lastReq') = 1
        ELSE Performed(lastReq) + Performed(lastReq') = 2]_vars

\* C5 amended: of two consecutive rewrite requests the first of which is
\* performed, the second is performed exactly when it comes at least T after
\* the first: one rewrite when they are less than T apart, two otherwise.
C5_AfterAPerformedRequest ==
    [][(lastReq.done /\ lastReq' # lastReq /\ RewriteRequest) =>
        (lastReq'.done <=> lastReq'.t - lastReq.t >= TimeBetweenFullDump)]_vars

\* C5 witness: a request has been skipped less than T after a performed one.
C5_Witness ==
    /\ lastReq # NoReq
    /\ ~lastReq.done
    /\ lastFullDump # ZeroTime
    /\ lastReq.t - lastFullDump < TimeBetweenFullDump
    /\ lastReq.t > lastFullDump

\* C6: the destination does not exist before the first call, and when the
\* first call on a fresh Store is an add whose I/O all succeeds, the
\* destination holds the header and then the added record's line, only.
C6_AppendBootstrap ==
    /\ hist = <<>> => paths[DestPath] = NoIno
    /\ \A o \in RawObjects :
        (hist = <<[op |-> "add", obj |-> o]>> /\ faults = 0)
            => /\ ret = "nil"
               /\ ReadDest = <<NodeHeader, ToString(resourceCtor(o))>>

\* C6 witness: the first call was an add and the destination now exists.
C6_Witness ==
    /\ \E o \in RawObjects : hist = <<[op |-> "add", obj |-> o]>>
    /\ faults = 0
    /\ paths[DestPath] # NoIno

\* C7: adding an object whose record the cache already holds gives the
\* cache it was, of the same size, and a full rewrite that replaces a file
\* with several lines for a cached record leaves exactly one.
C7_ReAddIsIdempotent ==
    /\ \A o \in RawObjects :
        Prev(data, resourceKey(o)) = resourceCtor(o) =>
            /\ Added(data, o) = data
            /\ Cardinality(DOMAIN Added(data, o)) = Cardinality(DOMAIN data)
    /\ pc = "install" =>
        \A k \in DOMAIN data :
            Count(preDest, ToString(data[k])) >= 2
                => Count(ReadDest, ToString(data[k])) = 1

\* C7 witness: a record added twice had two lines, and the rewrite left one.
C7_Witness ==
    /\ pc = "install"
    /\ \E k \in DOMAIN data :
        /\ Count(preDest, ToString(data[k])) >= 2
        /\ Count(ReadDest, ToString(data[k])) = 1

DumpSteps == {"create", "write", "sync", "close", "rename"}

\* C8: when an I/O call of a full rewrite fails, the rewrite ends with an
\* error returned to its caller and the destination as it was before.
C8_FailedRewriteIsReported ==
    [][(pc \in DumpSteps /\ faults' = faults + 1) =>
        /\ pc' = "idle"
        /\ ret' = "err"
        /\ ReadDest' = preDest]_vars

\* C9: no I/O failure makes the Store panic.
C9_NeverPanics == pc # "panic"

\* C10: the cache is what the calls alone make it (a list replaces it, an
\* add or changed update sets an entry, a delete removes one), whatever
\* happened to the file I/O.
C10_CacheFollowsCalls == Entries(data) = ideal

\* C10 witness: an I/O call has failed, the call returned an error, and the
\* cache holds the entries of the calls made.
C10_Witness ==
    /\ pc = "idle"
    /\ ret = "err"
    /\ faults > 0
    /\ data # <<>>
    /\ Entries(data) = ideal

Unresolved == [kind |-> "other"]

\* C11: a delete whose argument is of no known type leaves the cache as it
\* is and performs no rewrite (the call returns with the file untouched); a
\* delete of a resolvable identity the cache does not hold leaves the cache
\* as it is.
C11_UnknownDeleteIsNoOp ==
    [][/\ (pc = "idle" /\ DeleteResourceOf(Unresolved)) =>
            /\ data' = data
            /\ pc' = "idle"
            /\ lastFullDump' = lastFullDump
       /\ \A arg \in DeleteArgs \ {Unresolved} :
            (/\ pc = "idle"
             /\ resourceKey(arg.obj) \notin DOMAIN data
             /\ DeleteResourceOf(arg)) => data' = data]_vars

\* C12: an update whose candidate record equals the cached entry (the
\* comparing adapter reports 'unchanged') changes nothing: cache, files,
\* open handle, last-rewrite timestamp and clock reading stay, no rewrite
\* starts; every other update replaces the entry by the new record and
\* requests a full rewrite.
C12_UnchangedUpdateIsFrame ==
    [][\A new \in RawObjects :
        (pc = "idle" /\ hist' = <<[op |-> "update", new |-> new]>>) =>
            IF resourceCtor(new) = Prev(data, resourceKey(new))
            THEN UNCHANGED <<data, firstWrite, lastFullDump, currentFile,
                             paths, inodes, clock, pc, faults>>
            ELSE /\ data' = Put(data, resourceKey(new), resourceCtor(new))
                 /\ \E now \in Nows : DumpFullStateEnter(now)]_vars

\* C12 witness: the last call was an update carrying the cached record, the
\* file has been created by an add, and no rewrite has ever been started.
C12_Witness ==
    /\ kind = "compared"
    /\ \E o \in RawObjects :
        /\ hist = <<[op |-> "update", new |-> o]>>
        /\ Prev(data, resourceKey(o)) = resourceCtor(o)
    /\ pc = "idle"
    /\ lastFullDump = ZeroTime
    /\ paths[DestPath] # NoIno

\* a step of a full rewrite
DumpStep ==
    \/ DumpCreate \/ DumpWrite \/ DumpFlush \/ DumpSync
    \/ DumpClose \/ DumpRename \/ DumpInstall

\* C13: a throttled request leaves nothing behind: once the last request
\* has been skipped the Store is between calls with no rewrite step to take
\* (the file stays as it is until another call), and a rewrite only starts
\* inside a call that comes at least T after the last performed one.
C13_SkippedIsNotRetried ==
    [][/\ (lastReq' # NoReq /\ ~lastReq'.done) =>
            /\ pc' = "idle"
            /\ ~(ENABLED DumpStep)'
       /\ (pc = "idle" /\ pc' # "idle") =>
            /\ clock' - lastFullDump >= TimeBetweenFullDump
            /\ lastReq'.done]_vars

\* C13 witness: the last request was skipped, the Store is idle, and the
\* destination still has the line of a record the cache no longer holds.
C13_Witness ==
    /\ lastReq # NoReq
    /\ ~lastReq.done
    /\ pc = "idle"
    /\ paths[DestPath] # NoIno
    /\ \E i \in 2..Len(ReadDest) :
        ReadDest[i] \notin Rendered(data) \cup {NodeHeader, Hole}

\* C14: between calls, once the destination file exists, the current
\* handle is open and is a handle of the file at the destination path.
C14_HandleIsTheDestination ==
    (pc = "idle" /\ paths[DestPath] # NoIno) =>
        /\ ~currentFile.closed
        /\ currentFile.ino = paths[DestPath]

\* every line a record of the inputs can render to
RecordLines == {ToString(resourceCtor(o)) : o \in RawObjects}

\* C15: in runs without I/O failure the destination file, once it exists,
\* has the header exactly once, as its first line, and every other line is
\* a rendered record.
C15_HeaderOnceAndFirst ==
    (faults = 0 /\ paths[DestPath] # NoIno) =>
        /\ Len(ReadDest) >= 1
        /\ ReadDest[1] = NodeHeader
        /\ Count(ReadDest, NodeHeader) = 1
        /\ \A i \in 2..Len(ReadDest) : ReadDest[i] \in RecordLines

\* C16: the last-rewrite timestamp is that of the last completed rewrite:
\* when the only call so far is a list whose rewrite failed, no rewrite has
\* completed and the timestamp is still the zero time.
C16_FailedRewriteKeepsTimestamp ==
    \A lst \in Lists :
        (/\ hist = <<[op |-> "list", lst |-> lst]>>
         /\ pc = "idle"
         /\ ret = "err") => lastFullDump = ZeroTime

\* the scratch file is the file of handle f and holds the whole dump, with
\* nothing left in the buffer
ScratchComplete ==
    /\ w = <<>> /\ todo = {}
    /\ ~f.closed
    /\ IsDumpOf(inodes[f.ino], data)

\* C17: the steps of a performed rewrite come in the order create, write,
\* flush, sync, close, rename, install: while records are written the
\* scratch path names the created file; from the sync on the file holds
\* the flushed dump; at the rename the old handle is closed and the
\* destination not yet replaced; at the install the scratch path is gone,
\* the destination is the new file and no handle is installed yet.
C17_StepsInOrder ==
    /\ pc = "write" => (paths[TempPath] = f.ino /\ ~f.closed)
    /\ pc \in {"sync", "close", "rename"} =>
        (ScratchComplete /\ paths[TempPath] = f.ino)
    /\ pc = "rename" => (currentFile.closed /\ ReadDest = preDest)
    /\ pc = "install" =>
        /\ ScratchComplete
        /\ paths[TempPath] = NoIno
        /\ paths[DestPath] = f.ino
        /\ currentFile.closed

\* C17 witness: a rewrite of a cache with records has renamed its file over
\* an existing destination and is about to install the handle.
C17_Witness ==
    /\ pc = "install"
    /\ data # <<>>
    /\ preDest # NoFile
    /\ paths[DestPath] = f.ino
    /\ currentFile.closed

\* C18: a rewrite that starts records its clock reading, at least T after
\* the one recorded by the rewrite before it; the last-rewrite timestamp
\* never decreases; and the first rewrite request on a fresh Store is
\* performed.
C18_RewritesAreSpaced ==
    [][/\ (pc = "idle" /\ pc' = "create") =>
            /\ lastFullDump' = clock'
            /\ lastFullDump # ZeroTime =>
                    lastFullDump' - lastFullDump >= TimeBetweenFullDump
       /\ lastFullDump' >= lastFullDump
       /\ (lastReq = NoReq /\ lastReq' # NoReq) =>
            (lastReq'.done /\ pc' = "create")]_vars

\* C18 witness: a second rewrite starts, T or more after the start of the
\* Store; the destination it will replace was made by a rewrite (nothing
\* has been appended yet).
C18_Witness ==
    /\ pc = "create"
    /\ firstWrite
    /\ paths[DestPath] # NoIno
    /\ lastReq.done
    /\ lastFullDump >= StartTime + TimeBetweenFullDump

\* C19: an update of an identity the cache does not hold adds it, under the
\* key of the new object, and requests a rewrite: as first call it leaves
\* exactly the new record, and after an add of another identity it leaves
\* two entries; the first request being performed, the timestamp is set.
C19_UpdateOfAbsentAdds ==
    \A new \in RawObjects :
        /\ hist = <<[op |-> "update", new |-> new]>> =>
            /\ DOMAIN data = {resourceKey(new)}
            /\ data[resourceKey(new)] = resourceCtor(new)
            /\ lastFullDump # ZeroTime
        /\ \A o \in RawObjects :
            (/\ resourceKey(o) # resourceKey(new)
             /\ hist = <<[op |-> "add", obj |-> o],
                         [op |-> "update", new |-> new]>>) =>
                /\ DOMAIN data = {resourceKey(o), resourceKey(new)}
                /\ Cardinality(DOMAIN data) = 2
                /\ data[resourceKey(new)] = resourceCtor(new)
                /\ data[resourceKey(o)] = resourceCtor(o)
                /\ lastFullDump # ZeroTime

\* C19 witness: after an add of one identity and an update of another the
\* rewrite the update asked for has gone through with both records.
C19_Witness ==
    /\ \E o, new \in RawObjects :
        /\ resourceKey(o) # resourceKey(new)
        /\ hist = <<[op |-> "add", obj |-> o], [op |-> "update", new |-> new]>>
    /\ pc = "idle"
    /\ ret = "nil"
    /\ IsDumpOf(ReadDest, data)
    /\ Cardinality(DOMAIN data) = 2

SameResource(o1, o2) == o1.ns = o2.ns /\ o1.name = o2.name

\* C20: two objects get the same key exactly when they have the same
\* namespace and the same name, and two adds of different resources leave
\* two cache entries, each with its own record.
C20_KeyIsInjective ==
    \A o1, o2 \in KeyObjects :
        /\ resourceKey(o1) = resourceKey(o2) <=> SameResource(o1, o2)
        /\ hist = <<[op |-> "add", obj |-> o1], [op |-> "add", obj |-> o2]>> =>
            /\ Cardinality(DOMAIN data) = IF SameResource(o1, o2) THEN 1 ELSE 2
            /\ Prev(data, resourceKey(o1)) = resourceCtor(o1)
            /\ Prev(data, resourceKey(o2)) = resourceCtor(o2)

\* C20 witness: two different resources whose namespace and name read the
\* same when put side by side have been added, and the cache has both.
C20_Witness ==
    \E o1, o2 \in KeyObjects :
        /\ ~SameResource(o1, o2)
        /\ o1.ns \o o1.name = o2.ns \o o2.name
        /\ hist = <<[op |-> "add", obj |-> o1], [op |-> "add", obj |-> o2]>>
        /\ Cardinality(DOMAIN data) = 2

====
